---- MODULE Spec2Model ----
(***************************************************************************)
(* Model of quiche/src/plugin.rs: the translation layer between the QUIC   *)
(* engine (frames, headers, connection and recovery state) and the plugin  *)
(* value model (PluginVal).                                                *)
(*                                                                         *)
(* Two specifications share the variables:                                 *)
(*   Spec      - the state accessors of ConnectionToPlugin                 *)
(*               (get/set_connection, get/set_recovery);                   *)
(*   CodecSpec - the pure conversions (frame encode/decode, i64 -> Error). *)
(*                                                                         *)
(* A panic (todo!(), unwrap on None) ends the process: the call's result   *)
(* is recorded as kind "Panic" and no further action is taken.             *)
(***************************************************************************)
EXTENDS Integers, Sequences, FiniteSets, TLC

VARIABLES
    max_tx_data,      \* Connection::max_tx_data (u64)
    is_established,   \* what Connection::is_established() returns
    is_server,        \* Connection::is_server
    pkt_num_spaces,   \* Connection::pkt_num_spaces, per epoch
    paths,            \* Connection::paths: path id -> [recovery |-> ...]
    active,           \* id of the active path, 0 when there is none
    call,             \* the last call: [op, arg, res]
    input,            \* the value a conversion is applied to (CodecSpec)
    written,          \* field -> the bytes of the last set_connection that returned Ok
    aborted           \* TRUE once a call has panicked

vars == <<max_tx_data, is_established, is_server, pkt_num_spaces, paths,
          active, call, input, written, aborted>>

connState == <<max_tx_data, is_established, is_server, pkt_num_spaces, paths, active>>

----------------------------------------------------------------------------
(* Bounds *)

\* u64 / usize scalars range over 0..MaxVal
MaxVal == 1
\* the connection has path ids 1..NumPaths
NumPaths == 2

Vals == 0..MaxVal
PathIds == 1..NumPaths

None == [kind |-> "None"]
Some(x) == [kind |-> "Some", v |-> x]

----------------------------------------------------------------------------
(* Results of a call *)

Ok(x) == [kind |-> "Ok", val |-> x]
Err(e) == [kind |-> "Err", err |-> e]
Panic(m) == [kind |-> "Panic", msg |-> m]
Unit == "()"

----------------------------------------------------------------------------
(* Scalar plugin values and their conversions (pluginop::common::PluginVal) *)

PVBool(b) == [kind |-> "Bool", v |-> b]
PVU64(n) == [kind |-> "U64", v |-> n]
PVUsize(n) == [kind |-> "Usize", v |-> n]
PVI64(n) == [kind |-> "I64", v |-> n]

ScalarVals ==
    {PVBool(b) : b \in BOOLEAN} \cup {PVU64(n) : n \in Vals}
        \cup {PVUsize(n) : n \in Vals} \cup {PVI64(-1)}

\* pv.try_into() for a u64 target: only PluginVal::U64 converts
TryIntoU64(pv) == IF pv.kind = "U64" THEN Ok(pv.v) ELSE Err("BadType")
\* pv.try_into() for a usize target: only PluginVal::Usize converts
TryIntoUsize(pv) == IF pv.kind = "Usize" THEN Ok(pv.v) ELSE Err("BadType")

----------------------------------------------------------------------------
(* The byte boundary: postcard::to_slice / postcard::from_bytes on a scalar *)
(* PluginVal.  A value is its enum discriminant followed by its payload:    *)
(* one byte for a bool, a LEB128 varint for an unsigned integer, a zigzag   *)
(* varint for a signed one.                                                 *)

Discriminant(kind) ==
    CASE kind = "Bool" -> 0
      [] kind = "I64" -> 2
      [] kind = "U64" -> 4
      [] kind = "Usize" -> 7

RECURSIVE Varint(_)
Varint(n) == IF n < 128 THEN <<n>> ELSE <<128 + (n % 128)>> \o Varint(n \div 128)

\* reads a varint of bs from position i: [ok, v, next]
RECURSIVE ReadVarint(_, _)
ReadVarint(bs, i) ==
    IF i > Len(bs) THEN [ok |-> FALSE, v |-> 0, next |-> i]
    ELSE IF bs[i] < 128 THEN [ok |-> TRUE, v |-> bs[i], next |-> i + 1]
    ELSE LET rest == ReadVarint(bs, i + 1)
         IN  [ok |-> rest.ok, v |-> (bs[i] - 128) + 128 * rest.v, next |-> rest.next]

ZigZag(n) == IF n >= 0 THEN 2 * n ELSE -2 * n - 1
UnZigZag(z) == IF z % 2 = 0 THEN z \div 2 ELSE -((z + 1) \div 2)

\* postcard::to_slice(&pv, w), for a buffer w that is long enough for pv
Serialize(pv) ==
    <<Discriminant(pv.kind)>> \o
        CASE pv.kind = "Bool" -> <<IF pv.v THEN 1 ELSE 0>>
          [] pv.kind = "I64" -> Varint(ZigZag(pv.v))
          [] OTHER -> Varint(pv.v)

\* postcard::from_bytes::<PluginVal>(r); trailing bytes are not looked at
Deserialize(r) ==
    LET d == ReadVarint(r, 1)
        p == ReadVarint(r, d.next)
    IN  IF ~d.ok \/ ~p.ok THEN Err("SerializeError")
        ELSE CASE d.v = 0 ->
                    IF p.v \in {0, 1} THEN Ok(PVBool(p.v = 1)) ELSE Err("SerializeError")
               [] d.v = 2 -> Ok(PVI64(UnZigZag(p.v)))
               [] d.v = 4 -> Ok(PVU64(p.v))
               [] d.v = 7 -> Ok(PVUsize(p.v))
               [] OTHER -> Err("SerializeError")

\* byte strings that are no PluginVal: an unknown discriminant, a truncated value
Garbage == {<<99, 0>>, <<4>>}

InputBytes == {Serialize(pv) : pv \in ScalarVals} \cup Garbage

----------------------------------------------------------------------------
(* Field namespaces (pluginop::common::quic) *)

Epochs == {"Initial", "Handshake", "Application"}
KPacketNumberSpaces == {"Initial", "Handshake", "ApplicationData"}

\* impl From<quic::KPacketNumberSpace> for packet::Epoch
EpochFrom(k) ==
    CASE k = "Initial" -> "Initial"
      [] k = "Handshake" -> "Handshake"
      [] k = "ApplicationData" -> "Application"

PacketNumberSpaceFields ==
    {"ReceivedPacketNeedAck", "AckEllicited", "NextPacketNumber", "HasSendKeys",
     "ShouldSend", "LargestRxPacketNumber"}

CFMaxTxData == [name |-> "MaxTxData"]
CFIsEstablished == [name |-> "IsEstablished"]
CFIsServer == [name |-> "IsServer"]
CFPacketNumberSpace(e, f) == [name |-> "PacketNumberSpace", e |-> e, f |-> f]
\* the ConnectionField variants plugin.rs does not name stand as one
CFOther == [name |-> "MaxRxData"]

ConnectionFields ==
    {CFMaxTxData, CFIsEstablished, CFIsServer, CFOther}
        \cup {CFPacketNumberSpace(e, f) : e \in KPacketNumberSpaces, f \in PacketNumberSpaceFields}

\* the RecoveryField variants plugin.rs does not name stand as "BytesInFlight"
RecoveryFields == {"CongestionWindow", "Ssthresh", "BytesInFlight"}

----------------------------------------------------------------------------
(* StateAccessor: impl ConnectionToPlugin for Connection *)

get_recovery(field) == Panic("find the right recovery")

\* [res, paths]: the result and the paths afterwards
set_recovery(field, r) ==
    LET de == Deserialize(r) IN
    IF de.kind = "Err" THEN [res |-> Err("SerializeError"), paths |-> paths]
    ELSE IF active \in PathIds THEN
        IF field = "CongestionWindow" THEN
            LET c == TryIntoUsize(de.val) IN
            IF c.kind = "Err" THEN [res |-> Err("BadType"), paths |-> paths]
            ELSE [res |-> Ok(Unit),
                  paths |-> [paths EXCEPT ![active].recovery.congestion_window = c.val]]
        ELSE IF field = "Ssthresh" THEN
            LET c == TryIntoUsize(de.val) IN
            IF c.kind = "Err" THEN [res |-> Err("BadType"), paths |-> paths]
            ELSE [res |-> Ok(Unit),
                  paths |-> [paths EXCEPT ![active].recovery.ssthresh = c.val]]
        ELSE [res |-> Panic("cannot set recovery field yet"), paths |-> paths]
    ELSE [res |-> Ok(Unit), paths |-> paths]

get_connection(field) ==
    IF field = CFMaxTxData THEN Ok(Serialize(PVU64(max_tx_data)))
    ELSE IF field = CFIsEstablished THEN Ok(Serialize(PVBool(is_established)))
    ELSE IF field = CFIsServer THEN Ok(Serialize(PVBool(is_server)))
    ELSE IF field.name = "PacketNumberSpace" THEN
        LET pns == pkt_num_spaces[EpochFrom(field.e)] IN
        CASE field.f = "ReceivedPacketNeedAck" ->
                Ok(Serialize(PVBool(pns.recv_pkt_need_ack_len > 0)))
          [] field.f = "AckEllicited" -> Ok(Serialize(PVBool(pns.ack_elicited)))
          [] field.f = "NextPacketNumber" -> Panic("not yet implemented")
          [] field.f = "HasSendKeys" -> Panic("not yet implemented")
          [] field.f = "ShouldSend" -> Panic("not yet implemented")
          [] field.f = "LargestRxPacketNumber" -> Panic("not yet implemented")
    ELSE Panic("not yet implemented: field")

\* set_connection that answers Ok for MaxTxData without storing the value
set_connection_stale(field, r) ==
    LET de == Deserialize(r) IN
    IF de.kind = "Err" THEN [res |-> Err("SerializeError"), max_tx_data |-> max_tx_data]
    ELSE IF field = CFMaxTxData THEN
        LET c == TryIntoU64(de.val) IN
        IF c.kind = "Err" THEN [res |-> Err("BadType"), max_tx_data |-> max_tx_data]
        ELSE [res |-> Ok(Unit), max_tx_data |-> max_tx_data]
    ELSE [res |-> Panic("not yet implemented"), max_tx_data |-> max_tx_data]

\* set_connection that clears the field before it checks the value's type
set_connection_clears(field, r) ==
    LET de == Deserialize(r) IN
    IF de.kind = "Err" THEN [res |-> Err("SerializeError"), max_tx_data |-> max_tx_data]
    ELSE IF field = CFMaxTxData THEN
        LET c == TryIntoU64(de.val) IN
        IF c.kind = "Err" THEN [res |-> Err("BadType"), max_tx_data |-> 0]
        ELSE [res |-> Ok(Unit), max_tx_data |-> c.val]
    ELSE [res |-> Panic("not yet implemented"), max_tx_data |-> max_tx_data]

\* [res, max_tx_data]: the result and max_tx_data afterwards
set_connection(field, r) ==
    LET de == Deserialize(r) IN
    IF de.kind = "Err" THEN [res |-> Err("SerializeError"), max_tx_data |-> max_tx_data]
    ELSE IF field = CFMaxTxData THEN
        LET c == TryIntoU64(de.val) IN
        IF c.kind = "Err" THEN [res |-> Err("BadType"), max_tx_data |-> max_tx_data]
        ELSE [res |-> Ok(Unit), max_tx_data |-> c.val]
    ELSE [res |-> Panic("not yet implemented"), max_tx_data |-> max_tx_data]

NoInput == [in |-> "none"]

GetRecovery(field) ==
    /\ ~aborted
    /\ call' = [op |-> "get_recovery", arg |-> <<field>>, res |-> get_recovery(field)]
    /\ aborted' = (call'.res.kind = "Panic")
    /\ UNCHANGED <<connState, input, written>>

SetRecovery(field, r) ==
    /\ ~aborted
    /\ LET out == set_recovery(field, r) IN
        /\ call' = [op |-> "set_recovery", arg |-> <<field, r>>, res |-> out.res]
        /\ paths' = out.paths
        /\ aborted' = (out.res.kind = "Panic")
    /\ UNCHANGED <<max_tx_data, is_established, is_server, pkt_num_spaces, active,
                   input, written>>

GetConnection(field) ==
    /\ ~aborted
    /\ call' = [op |-> "get_connection", arg |-> <<field>>, res |-> get_connection(field)]
    /\ aborted' = (call'.res.kind = "Panic")
    /\ UNCHANGED <<connState, input, written>>

SetConnection(field, r) ==
    /\ ~aborted
    /\ LET out == set_connection(field, r) IN
        /\ call' = [op |-> "set_connection", arg |-> <<field, r>>, res |-> out.res]
        /\ max_tx_data' = out.max_tx_data
        /\ aborted' = (out.res.kind = "Panic")
        /\ written' = IF out.res.kind = "Ok"
                      THEN [written EXCEPT ![field] = Some(r)]
                      ELSE written
    /\ UNCHANGED <<is_established, is_server, pkt_num_spaces, paths, active, input>>

NoCall == [op |-> "none", arg |-> << >>, res |-> Ok(Unit)]

Pns(n, a) == [recv_pkt_need_ack_len |-> n, ack_elicited |-> a]

\* The engine state the accessors only read, at two moments a plugin is run:
\* a client before the handshake completes, with an Initial packet to
\* acknowledge, and a server after it, with an ack elicited in Application.
EngineSnapshots ==
    {[is_established |-> FALSE, is_server |-> FALSE,
      pkt_num_spaces |-> [e \in Epochs |-> IF e = "Initial" THEN Pns(1, FALSE) ELSE Pns(0, FALSE)]],
     [is_established |-> TRUE, is_server |-> TRUE,
      pkt_num_spaces |-> [e \in Epochs |-> IF e = "Application" THEN Pns(0, TRUE) ELSE Pns(0, FALSE)]]}

Init ==
    /\ max_tx_data = 0
    /\ \E s \in EngineSnapshots :
        /\ is_established = s.is_established
        /\ is_server = s.is_server
        /\ pkt_num_spaces = s.pkt_num_spaces
    /\ paths = [p \in PathIds |->
                   [recovery |-> [congestion_window |-> 1, ssthresh |-> MaxVal]]]
    /\ active \in 0..NumPaths
    /\ call = NoCall
    /\ input = NoInput
    /\ written = [f \in ConnectionFields |-> None]
    /\ aborted = FALSE

Next ==
    \/ \E field \in RecoveryFields : GetRecovery(field)
    \/ \E field \in RecoveryFields, r \in InputBytes : SetRecovery(field, r)
    \/ \E field \in ConnectionFields : GetConnection(field)
    \/ \E field \in ConnectionFields, r \in InputBytes : SetConnection(field, r)

Spec == Init /\ [][Next]_vars

----------------------------------------------------------------------------
(* Engine frames (frame::Frame), the inputs of the frame codec *)

\* packet numbers of an ACK frame are below MaxPn
MaxPn == 13
\* the bytes of a path challenge are 0..MaxByte or 255
MaxByte == 1
\* plugin error codes are -1000 or within -MaxCode..MaxCode
MaxCode == 60

\* RangeSet: the ascending sequence of the maximal runs [start, end) of a set
\* of packet numbers, so that no two ranges overlap or touch
RECURSIVE RangesFrom(_, _)
RangesFrom(S, n) ==
    IF n >= MaxPn THEN << >>
    ELSE IF n \notin S THEN RangesFrom(S, n + 1)
    ELSE LET e == CHOOSE m \in (n + 1)..MaxPn :
                      /\ \A k \in n..(m - 1) : k \in S
                      /\ (m = MaxPn \/ m \notin S)
         IN  <<[start |-> n, end |-> e]>> \o RangesFrom(S, e)

RangeSets == {RangesFrom(S, 0) : S \in (SUBSET (0..(MaxPn - 1))) \ {{}}}

EcnCounts == [ect0_count |-> 0, ect1_count |-> 1, ecn_ce_count |-> 2]

ByteVals == (0..MaxByte) \cup {255}
ByteArrays == [1..8 -> ByteVals] \cup {<<1, 2, 3, 4, 5, 6, 7, 8>>}

F0(t) == [type |-> t]
AckFrames ==
    {[type |-> "ACK", ack_delay |-> 1, ranges |-> R, ecn_counts |-> e] :
        R \in RangeSets, e \in {None, Some(EcnCounts)}}

\* the variants whose encoding involves no payload handle
PlainFrames ==
    {[type |-> "Padding", len |-> n] : n \in Vals}
    \cup {F0("Ping"), F0("HandshakeDone")}
    \cup {[type |-> "ResetStream", stream_id |-> a, error_code |-> b, final_size |-> c] :
            a \in Vals, b \in Vals, c \in Vals}
    \cup {[type |-> "StopSending", stream_id |-> a, error_code |-> b] : a \in Vals, b \in Vals}
    \cup {[type |-> t, max |-> n] : t \in {"MaxData", "MaxStreamsBidi", "MaxStreamsUni"}, n \in Vals}
    \cup {[type |-> "MaxStreamData", stream_id |-> a, max |-> n] : a \in Vals, n \in Vals}
    \cup {[type |-> t, limit |-> n] :
            t \in {"DataBlocked", "StreamsBlockedBidi", "StreamsBlockedUni"}, n \in Vals}
    \cup {[type |-> "StreamDataBlocked", stream_id |-> a, limit |-> n] : a \in Vals, n \in Vals}
    \cup {[type |-> "RetireConnectionId", seq_num |-> n] : n \in Vals}
    \cup {[type |-> t, data |-> d] : t \in {"PathChallenge", "PathResponse"}, d \in ByteArrays}
    \cup {[type |-> "Extension", ty |-> a, tag |-> b] : a \in Vals, b \in Vals}

\* the variants that own or refer to payload bytes; data is [off, len, fin]
PayloadFrames ==
    {[type |-> "Crypto", data |-> [off |-> 0, len |-> n, fin |-> FALSE]] : n \in Vals}
    \cup {[type |-> "CryptoHeader", offset |-> 0, length |-> n] : n \in Vals}
    \cup {[type |-> "NewToken", token_len |-> n] : n \in Vals}
    \cup {[type |-> "Stream", stream_id |-> a, data |-> [off |-> 0, len |-> n, fin |-> f]] :
            a \in Vals, n \in Vals, f \in BOOLEAN}
    \cup {[type |-> "StreamHeader", stream_id |-> a, offset |-> 0, length |-> n, fin |-> f] :
            a \in Vals, n \in Vals, f \in BOOLEAN}
    \cup {[type |-> "NewConnectionId", seq_num |-> a, retire_prior_to |-> 0, conn_id_len |-> n] :
            a \in Vals, n \in Vals}
    \cup {[type |-> "ConnectionClose", error_code |-> a, frame_type |-> 0, reason_len |-> n] :
            a \in Vals, n \in Vals}
    \cup {[type |-> "ApplicationClose", error_code |-> a, reason_len |-> n] :
            a \in Vals, n \in Vals}
    \cup {[type |-> "Datagram", data_len |-> n] : n \in Vals}
    \cup {[type |-> "DatagramHeader", length |-> n] : n \in Vals}

EngineFrames == PlainFrames \cup AckFrames \cup PayloadFrames

----------------------------------------------------------------------------
(* u64 values of path data.  TLC's integers are 32 bits wide, so the 64-bit  *)
(* integer is held as its four 16-bit digits, most significant first.        *)

\* the little-endian reading of the same bytes
from_le_bytes(d) ==
    <<d[8] * 256 + d[7], d[6] * 256 + d[5], d[4] * 256 + d[3], d[2] * 256 + d[1]>>

\* u64::from_be_bytes(data)
from_be_bytes(d) ==
    <<d[1] * 256 + d[2], d[3] * 256 + d[4], d[5] * 256 + d[6], d[7] * 256 + d[8]>>

\* u64::to_be_bytes(x)
to_be_bytes(x) ==
    [i \in 1..8 |-> IF i % 2 = 1 THEN x[(i + 1) \div 2] \div 256 ELSE x[i \div 2] % 256]

----------------------------------------------------------------------------
(* FrameCodec, engine -> plugin: FromWithPH<frame::Frame> for PluginVal *)

EmptyHandle == [tag |-> 0, max_read_len |-> 0, max_write_len |-> 0]

\* the local vector ack_ranges that the ACK arm builds, walking the ranges
\* below the highest one from highest to lowest
AckRangePairs(ranges) ==
    [k \in 1..(Len(ranges) - 1) |->
        LET r == ranges[Len(ranges) - k]
            smallest_ack == ranges[Len(ranges) - k + 1].start
        IN  [gap |-> smallest_ack - r.end - 1,
             ack_range_length |-> (r.end - 1) - r.start]]

\* the ACK arm: the pairs of AckRangePairs are built and then dropped, the
\* frame's ack_ranges is the empty handle
EncodeAck(value) ==
    LET ranges == value.ranges
        first_range == ranges[Len(ranges)]
        largest_acknowledged == first_range.end - 1
    IN  IF Len(ranges) = 0 THEN Panic("ranges is empty")
        ELSE Ok([type |-> "ACK",
                 largest_acknowledged |-> largest_acknowledged,
                 ack_delay |-> value.ack_delay,
                 ack_range_count |-> Len(ranges) - 1,
                 first_ack_range |-> largest_acknowledged - first_range.start,
                 ecn_counts |->
                    IF value.ecn_counts = None THEN None
                    ELSE Some([ect0_count |-> value.ecn_counts.v.ect0_count,
                               ect1_count |-> value.ecn_counts.v.ect1_count,
                               ectce_count |-> value.ecn_counts.v.ecn_ce_count]),
                 ack_ranges |-> EmptyHandle])

\* the match of from_with_ph: the quic::Frame, or the panic of a todo!()
EncodeFrame(value) ==
    LET t == value.type IN
    CASE t = "Padding" -> Ok([type |-> "Padding", length |-> value.len])
      [] t = "Ping" -> Ok([type |-> "Ping"])
      [] t = "ACK" -> EncodeAck(value)
      [] t = "ResetStream" ->
            Ok([type |-> "ResetStream", stream_id |-> value.stream_id,
                application_protocol_error_code |-> value.error_code,
                final_size |-> value.final_size])
      [] t = "StopSending" ->
            Ok([type |-> "StopSending", stream_id |-> value.stream_id,
                application_protocol_error_code |-> value.error_code])
      [] t \in {"Crypto", "CryptoHeader"} -> Panic("not yet implemented")
      [] t = "NewToken" -> Panic("not yet implemented")
      [] t \in {"Stream", "StreamHeader"} -> Panic("not yet implemented")
      [] t = "MaxData" -> Ok([type |-> "MaxData", maximum_data |-> value.max])
      [] t = "MaxStreamData" ->
            Ok([type |-> "MaxStreamData", stream_id |-> value.stream_id,
                maximum_stream_data |-> value.max])
      [] t = "MaxStreamsBidi" ->
            Ok([type |-> "MaxStreams", unidirectional |-> FALSE, maximum_streams |-> value.max])
      [] t = "MaxStreamsUni" ->
            Ok([type |-> "MaxStreams", unidirectional |-> TRUE, maximum_streams |-> value.max])
      [] t = "DataBlocked" -> Ok([type |-> "DataBlocked", maximum_data |-> value.limit])
      [] t = "StreamDataBlocked" ->
            Ok([type |-> "StreamDataBlocked", stream_id |-> value.stream_id,
                maximum_stream_data |-> value.limit])
      [] t = "StreamsBlockedBidi" ->
            Ok([type |-> "StreamsBlocked", unidirectional |-> FALSE,
                maximum_streams |-> value.limit])
      [] t = "StreamsBlockedUni" ->
            Ok([type |-> "StreamsBlocked", unidirectional |-> FALSE,
                maximum_streams |-> value.limit])
      [] t = "NewConnectionId" -> Panic("not yet implemented")
      [] t = "RetireConnectionId" ->
            Ok([type |-> "RetireConnectionId", sequence_number |-> value.seq_num])
      [] t = "PathChallenge" ->
            Ok([type |-> "PathChallenge", data |-> from_be_bytes(value.data)])
      [] t = "PathResponse" ->
            Ok([type |-> "PathResponse", data |-> from_be_bytes(value.data)])
      [] t \in {"ConnectionClose", "ApplicationClose"} -> Panic("not yet implemented")
      [] t = "HandshakeDone" -> Ok([type |-> "HandshakeDone"])
      [] t \in {"Datagram", "DatagramHeader"} -> Panic("not yet implemented")
      [] t = "Extension" ->
            Ok([type |-> "Extension", frame_type |-> value.ty, tag |-> value.tag])

QFrame(f) == [kind |-> "QUIC", q |-> "Frame", frame |-> f]

from_with_ph(value) ==
    LET frame == EncodeFrame(value)
    IN  IF frame.kind = "Panic" THEN frame ELSE Ok(QFrame(frame.val))

----------------------------------------------------------------------------
(* FrameCodec, plugin -> engine: TryFromWithPH<PluginVal> for frame::Frame *)

\* the match of try_from_with_ph on a quic::Frame
DecodeFrame(f) ==
    LET t == f.type IN
    CASE t = "Padding" -> Ok([type |-> "Padding", len |-> f.length])
      [] t = "Ping" -> Ok([type |-> "Ping"])
      [] t = "ACK" -> Panic("not yet implemented: ack")
      [] t = "ResetStream" ->
            Ok([type |-> "ResetStream", stream_id |-> f.stream_id,
                error_code |-> f.application_protocol_error_code,
                final_size |-> f.final_size])
      [] t = "StopSending" ->
            Ok([type |-> "StopSending", stream_id |-> f.stream_id,
                error_code |-> f.application_protocol_error_code])
      [] t = "Crypto" -> Panic("not yet implemented: crypto")
      [] t = "NewToken" -> Panic("not yet implemented: new token")
      [] t = "Stream" -> Panic("not yet implemented: stream")
      [] t = "MaxData" -> Ok([type |-> "MaxData", max |-> f.maximum_data])
      [] t = "MaxStreamData" ->
            Ok([type |-> "MaxStreamData", stream_id |-> f.stream_id,
                max |-> f.maximum_stream_data])
      [] t = "MaxStreams" ->
            IF f.unidirectional
            THEN Ok([type |-> "MaxStreamsUni", max |-> f.maximum_streams])
            ELSE Ok([type |-> "MaxStreamsBidi", max |-> f.maximum_streams])
      [] t = "DataBlocked" -> Ok([type |-> "DataBlocked", limit |-> f.maximum_data])
      [] t = "StreamDataBlocked" ->
            Ok([type |-> "StreamDataBlocked", stream_id |-> f.stream_id,
                limit |-> f.maximum_stream_data])
      [] t = "StreamsBlocked" ->
            IF f.unidirectional
            THEN Ok([type |-> "StreamsBlockedUni", limit |-> f.maximum_streams])
            ELSE Ok([type |-> "StreamsBlockedBidi", limit |-> f.maximum_streams])
      [] t = "NewConnectionId" -> Panic("not yet implemented: new cid")
      [] t = "RetireConnectionId" ->
            Ok([type |-> "RetireConnectionId", seq_num |-> f.sequence_number])
      [] t = "PathChallenge" -> Ok([type |-> "PathChallenge", data |-> to_be_bytes(f.data)])
      [] t = "PathResponse" -> Ok([type |-> "PathResponse", data |-> to_be_bytes(f.data)])
      [] t = "ConnectionClose" -> Panic("not yet implemented: connection close")
      [] t = "HandshakeDone" -> Ok([type |-> "HandshakeDone"])
      [] t = "Extension" -> Ok([type |-> "Extension", ty |-> f.frame_type, tag |-> f.tag])
      [] OTHER -> Panic("not yet implemented: unknown frame")

IsFrameVal(value) == value.kind = "QUIC" /\ value.q = "Frame"

\* try_from_with_ph that takes a value of another kind for a PING frame
try_from_with_ph_any_kind(value) ==
    IF IsFrameVal(value) THEN DecodeFrame(value.frame) ELSE Ok([type |-> "Ping"])

try_from_with_ph(value) ==
    IF IsFrameVal(value) THEN DecodeFrame(value.frame) ELSE Err("BadFrame")

----------------------------------------------------------------------------
(* Error mapping: impl From<i64> for crate::Error *)

SuspendCode == -1000

error_from_i64(e) ==
    IF e = SuspendCode THEN Ok("SuspendSendingProcess") ELSE Panic("Error value")

----------------------------------------------------------------------------
(* HeaderCodec, engine -> plugin: FromWithPH<packet::Header> for PluginVal *)

\* a connection id has at most MaxCidLen bytes
MaxCidLen == 2

PacketTypes == {"Initial", "Retry", "Handshake", "ZeroRTT", "VersionNegotiation", "Short"}
LongTypes == {"Initial", "Retry", "Handshake", "ZeroRTT"}

ConnectionIds == {[i \in 1..n |-> 16 + i] : n \in 0..MaxCidLen}

\* packet::Header as the engine parses it: a version negotiation header has
\* version 0 and the list of versions, a short header no version and no
\* source connection id; first is what first_byte() returns
Headers ==
    {[ty |-> t,
      version |-> IF t \in LongTypes THEN 1 ELSE 0,
      dcid |-> d,
      scid |-> IF t = "Short" THEN << >> ELSE sc,
      pkt_num |-> n,
      pkt_num_len |-> l,
      versions |-> IF t = "VersionNegotiation" THEN Some(<<1, 2>>) ELSE None,
      key_phase |-> k,
      first |-> fb] :
        t \in PacketTypes, d \in ConnectionIds, sc \in ConnectionIds, n \in Vals,
        l \in {1, 4}, k \in BOOLEAN, fb \in {None, Some(192)}}

\* Option::unwrap_or
UnwrapOr(o, dflt) == IF o = None THEN dflt ELSE o.v

\* HeaderExt of every arm; pkt_num_len as u8 keeps the low eight bits
HeaderExtOf(h) ==
    Some([packet_number |-> Some(h.pkt_num),
          packet_number_len |-> Some(h.pkt_num_len % 256),
          token |-> None,
          key_phase |-> Some(h.key_phase)])

\* the quic::Header of from_with_ph; dcid is the placeholder handle
EncodeHeader(h) ==
    LET dcid == EmptyHandle IN
    IF h.ty = "VersionNegotiation" THEN
        [first |-> UnwrapOr(h.first, 0), version |-> Some(0), destination_cid |-> dcid,
         source_cid |-> None, supported_versions |-> None, ext |-> HeaderExtOf(h)]
    ELSE IF h.ty = "Short" THEN
        [first |-> UnwrapOr(h.first, 0), version |-> None, destination_cid |-> dcid,
         source_cid |-> None, supported_versions |-> None, ext |-> HeaderExtOf(h)]
    ELSE
        [first |-> UnwrapOr(h.first, 0), version |-> Some(h.version), destination_cid |-> dcid,
         source_cid |-> None, supported_versions |-> None, ext |-> HeaderExtOf(h)]

QHeader(hdr) == [kind |-> "QUIC", q |-> "Header", hdr |-> hdr]

header_from_with_ph(h) == Ok(QHeader(EncodeHeader(h)))

----------------------------------------------------------------------------
(* Plugin values a plugin may hand to the frame decoder *)

\* quic::Frame values of every sub-variant; "Other" stands for the sub-variants
\* plugin.rs does not name
PluginFrames ==
    {[type |-> "Padding", length |-> 1], [type |-> "Ping"], [type |-> "HandshakeDone"],
     [type |-> "ACK", largest_acknowledged |-> 12, ack_delay |-> 0, ack_range_count |-> 1,
      first_ack_range |-> 2, ecn_counts |-> None,
      ack_ranges |-> [tag |-> 1, max_read_len |-> 2, max_write_len |-> 0]],
     [type |-> "ResetStream", stream_id |-> 1, application_protocol_error_code |-> 0,
      final_size |-> 1],
     [type |-> "StopSending", stream_id |-> 1, application_protocol_error_code |-> 0],
     [type |-> "Crypto", offset |-> 0, length |-> 1, crypto_data |-> EmptyHandle],
     [type |-> "NewToken", token_length |-> 1, token |-> EmptyHandle],
     [type |-> "Stream", stream_id |-> 0, offset |-> None, length |-> None, fin |-> FALSE,
      stream_data |-> EmptyHandle],
     [type |-> "MaxData", maximum_data |-> 1],
     [type |-> "MaxStreamData", stream_id |-> 0, maximum_stream_data |-> 1],
     [type |-> "DataBlocked", maximum_data |-> 1],
     [type |-> "StreamDataBlocked", stream_id |-> 0, maximum_stream_data |-> 1],
     [type |-> "NewConnectionId", sequence_number |-> 1, retire_prior_to |-> 0, length |-> 0,
      connection_id |-> EmptyHandle, stateless_reset_token |-> EmptyHandle],
     [type |-> "RetireConnectionId", sequence_number |-> 1],
     [type |-> "PathChallenge", data |-> <<258, 772, 1286, 1800>>],
     [type |-> "PathResponse", data |-> <<65535, 0, 0, 1>>],
     [type |-> "ConnectionClose", error_code |-> 1, frame_type |-> None,
      reason_phrase_length |-> 0, reason_phrase |-> EmptyHandle],
     [type |-> "Extension", frame_type |-> 1, tag |-> 0],
     [type |-> "Other"]}
    \cup {[type |-> t, unidirectional |-> u, maximum_streams |-> n] :
            t \in {"MaxStreams", "StreamsBlocked"}, u \in BOOLEAN, n \in Vals}

\* values of the other kinds: header, packet number space, packet type, scalars
HeaderVal ==
    [kind |-> "QUIC", q |-> "Header",
     hdr |-> [first |-> 64, version |-> None, destination_cid |-> EmptyHandle,
              source_cid |-> None, supported_versions |-> None, ext |-> None]]

NonFrameVals ==
    {HeaderVal}
    \cup {[kind |-> "QUIC", q |-> "PacketNumberSpace", pns |-> k] : k \in KPacketNumberSpaces}
    \cup {[kind |-> "QUIC", q |-> "PacketType", ty |-> t] : t \in {"Initial", "Short"}}
    \cup ScalarVals

PluginCodes == {SuspendCode} \cup ((0 - MaxCode)..MaxCode)

CodecInputs ==
    {[in |-> "frame", frame |-> f] : f \in EngineFrames}
    \cup {[in |-> "value", value |-> QFrame(f)] : f \in PluginFrames}
    \cup {[in |-> "value", value |-> v] : v \in NonFrameVals}
    \cup {[in |-> "code", code |-> c] : c \in PluginCodes}
    \cup {[in |-> "header", header |-> h] : h \in Headers}

----------------------------------------------------------------------------
(* CodecSpec: one conversion pipeline per behaviour.  An engine frame is    *)
(* encoded and the plugin value it gives is decoded again; a plugin value   *)
(* is decoded; an error code is converted.                                  *)

\* the engine encodes the frame for a plugin
FromWithPH ==
    /\ ~aborted
    /\ call.op = "none"
    /\ input.in = "frame"
    /\ call' = [op |-> "from_with_ph", arg |-> input.frame, res |-> from_with_ph(input.frame)]
    /\ aborted' = (call'.res.kind = "Panic")
    /\ UNCHANGED <<connState, input, written>>

\* the engine decodes the value a plugin returns: the one a plugin built, or
\* the encoded frame handed back unchanged
TryFromWithPH ==
    /\ ~aborted
    /\ \/ call.op = "none" /\ input.in = "value"
       \/ call.op = "from_with_ph"
    /\ LET value == IF call.op = "none" THEN input.value ELSE call.res.val
       IN  call' = [op |-> "try_from_with_ph", arg |-> value, res |-> try_from_with_ph(value)]
    /\ aborted' = (call'.res.kind = "Panic")
    /\ UNCHANGED <<connState, input, written>>

\* a plugin's error code is turned into the engine's error
ErrorFromI64 ==
    /\ ~aborted
    /\ call.op = "none"
    /\ input.in = "code"
    /\ call' = [op |-> "error_from_i64", arg |-> input.code, res |-> error_from_i64(input.code)]
    /\ aborted' = (call'.res.kind = "Panic")
    /\ UNCHANGED <<connState, input, written>>

\* the engine encodes a packet header for a plugin
HeaderFromWithPH ==
    /\ ~aborted
    /\ call.op = "none"
    /\ input.in = "header"
    /\ call' = [op |-> "header_from_with_ph", arg |-> input.header,
                res |-> header_from_with_ph(input.header)]
    /\ aborted' = (call'.res.kind = "Panic")
    /\ UNCHANGED <<connState, input, written>>

CodecInit ==
    /\ max_tx_data = 0
    /\ is_established = FALSE
    /\ is_server = FALSE
    /\ pkt_num_spaces = [e \in Epochs |-> Pns(0, FALSE)]
    /\ paths = [p \in PathIds |->
                   [recovery |-> [congestion_window |-> 1, ssthresh |-> MaxVal]]]
    /\ active = 1
    /\ call = NoCall
    /\ input \in CodecInputs
    /\ written = [f \in ConnectionFields |-> None]
    /\ aborted = FALSE

CodecNext == FromWithPH \/ TryFromWithPH \/ ErrorFromI64 \/ HeaderFromWithPH

CodecSpec == CodecInit /\ [][CodecNext]_vars

----------------------------------------------------------------------------
(* Properties of the state accessors, checked under Spec *)

Setters == {"set_connection", "set_recovery"}
Accessors == {"get_connection", "set_connection", "get_recovery", "set_recovery"}

C5_SettersAllOrNothing ==
    [][ /\ (call'.op \in Setters /\ call'.res.kind = "Err")
            => /\ UNCHANGED connState
               /\ call'.res.err \in {"SerializeError", "BadType"}
               /\ (call'.res.err = "SerializeError")
                      <=> (Deserialize(call'.arg[2]).kind = "Err")
        /\ ( /\ call'.op = "set_connection"
             /\ call'.arg[1] = CFMaxTxData
             /\ Deserialize(call'.arg[2]).kind = "Ok"
             /\ Deserialize(call'.arg[2]).val.kind # "U64" )
            => (call'.res = Err("BadType") /\ max_tx_data' = max_tx_data)
      ]_vars

\* set_connection(MaxTxData, true) answered BadType after a set had stored 1
C5_Witness ==
    /\ call.op = "set_connection"
    /\ call.arg = <<CFMaxTxData, Serialize(PVBool(TRUE))>>
    /\ call.res = Err("BadType")
    /\ max_tx_data = 1

\* C8: for every enumerated ConnectionField and RecoveryField, each accessor
\* returns a result or an error value; none of them aborts.
C8_AccessorsNeverAbort ==
    call.op \in Accessors => call.res.kind # "Panic"

\* the recovery member a RecoveryField names
RecoveryMember(field) ==
    CASE field = "CongestionWindow" -> "congestion_window"
      [] field = "Ssthresh" -> "ssthresh"
      [] OTHER -> "none"

\* C11: when set_recovery(field, bytes) returns Ok for bytes that decode to v,
\* the targeted (active) path's recovery state holds v in that field afterwards
\* and no other field or path has changed; set_recovery never returns Ok
\* without having applied the value, also when there is no active path.
C11_SetRecoveryApplies ==
    [][ (call'.op = "set_recovery" /\ call'.res.kind = "Ok")
            => /\ active \in PathIds
               /\ RecoveryMember(call'.arg[1]) # "none"
               /\ paths'[active].recovery[RecoveryMember(call'.arg[1])]
                      = Deserialize(call'.arg[2]).val.v
               /\ \A m \in {"congestion_window", "ssthresh"} \ {RecoveryMember(call'.arg[1])} :
                      paths'[active].recovery[m] = paths[active].recovery[m]
               /\ \A p \in PathIds \ {active} : paths'[p] = paths[p]
               /\ UNCHANGED <<max_tx_data, is_established, is_server, pkt_num_spaces, active>>
      ]_vars

----------------------------------------------------------------------------
(* Properties of the conversions, checked under CodecSpec *)

PlainTypes == {f.type : f \in PlainFrames}
PathTypes == {"PathChallenge", "PathResponse"}

\* the last call decoded the encoding of the input frame
RoundTripDone == call.op = "try_from_with_ph" /\ input.in = "frame"

\* C1: for every engine frame of a variant without payload handle, decoding
\* the plugin value that encoding it gave returns Ok of the same frame: the
\* same variant with the same field values.
C1_RoundTripPlainFrames ==
    (RoundTripDone /\ input.frame.type \in PlainTypes) => call.res = Ok(input.frame)

ExampleRanges == <<[start |-> 5, end |-> 8], [start |-> 10, end |-> 13]>>
ExampleAck ==
    [type |-> "ACK", largest_acknowledged |-> 12, ack_delay |-> 0, ack_range_count |-> 1,
     first_ack_range |-> 2, ecn_counts |-> None,
     ack_ranges |-> [tag |-> 1, max_read_len |-> 2, max_write_len |-> 0]]

\* C2: encoding an ACK frame with a valid range sequence R and decoding the
\* result gives an ACK frame with exactly the ranges R; decoding
\* largest_acknowledged=12, first_ack_range=2, ack_ranges=[(1, 2)] gives
\* [[5,8), [10,13)].
C2_AckRoundTrip ==
    /\ (RoundTripDone /\ input.frame.type = "ACK")
        => /\ call.res.kind = "Ok"
           /\ call.res.val.type = "ACK"
           /\ call.res.val.ranges = input.frame.ranges
    /\ (call.op = "try_from_with_ph" /\ call.arg = QFrame(ExampleAck))
        => /\ call.res.kind = "Ok"
           /\ call.res.val.type = "ACK"
           /\ call.res.val.ranges = ExampleRanges

\* the pairs the claim asks for: one per range below the highest, from highest
\* to lowest
GapLengthPairs(R) ==
    [k \in 1..(Len(R) - 1) |->
        [gap |-> R[Len(R) - k + 1].start - R[Len(R) - k].end - 1,
         ack_range_length |-> (R[Len(R) - k].end - 1) - R[Len(R) - k].start]]

\* C3: the plugin ACK frame that encoding R gives carries largest_acknowledged
\* = end of the highest range - 1, first_ack_range = largest_acknowledged -
\* start of the highest range, ack_range_count = |R| - 1 and one (gap, length)
\* pair per remaining range, from highest to lowest.  What a frame carries of
\* its ranges is what its ack_ranges handle lets a plugin read, and a pair
\* takes at least two bytes there.
C3_EncodedAckCarriesRanges ==
    (call.op = "from_with_ph" /\ input.frame.type = "ACK")
        => /\ call.res.kind = "Ok"
           /\ LET R == input.frame.ranges
                  ack == call.res.val.frame
              IN  /\ ack.type = "ACK"
                  /\ ack.largest_acknowledged = R[Len(R)].end - 1
                  /\ ack.first_ack_range = ack.largest_acknowledged - R[Len(R)].start
                  /\ ack.ack_range_count = Len(R) - 1
                  /\ AckRangePairs(R) = GapLengthPairs(R)
                  /\ ack.ack_ranges.max_read_len >= 2 * Len(GapLengthPairs(R))

\* C6: decoding a PluginVal that is not tagged as a QUIC frame (a header, a
\* packet number space, a packet type, a scalar) returns BadFrame, never a frame.
C6_NonFrameIsBadFrame ==
    (call.op = "try_from_with_ph"
        /\ ~(call.arg.kind = "QUIC" /\ call.arg.q = "Frame"))
        => call.res = Err("BadFrame")

\* a header value was decoded and refused
C6_Witness ==
    /\ call.op = "try_from_with_ph"
    /\ call.arg = HeaderVal
    /\ call.res = Err("BadFrame")

\* C7: encoding PathChallenge{d} or PathResponse{d} gives the integer that is
\* the big-endian value of d, and decoding it gives back the same variant with
\* the same eight bytes in the same order.
C7_PathDataRoundTrip ==
    /\ (call.op = "from_with_ph" /\ input.frame.type \in PathTypes)
        => /\ call.res.kind = "Ok"
           /\ call.res.val.frame.type = input.frame.type
           /\ \A k \in 1..4 :
                call.res.val.frame.data[k]
                    = 256 * input.frame.data[2 * k - 1] + input.frame.data[2 * k]
    /\ (RoundTripDone /\ input.frame.type \in PathTypes) => call.res = Ok(input.frame)

\* [1,2,3,4,5,6,7,8] went through 0x0102030405060708 and came back
C7_Witness ==
    /\ RoundTripDone
    /\ input.frame = [type |-> "PathChallenge", data |-> <<1, 2, 3, 4, 5, 6, 7, 8>>]
    /\ call.arg.frame.data = <<258, 772, 1286, 1800>>
    /\ call.res = Ok(input.frame)

\* C9: the conversion of an i64 code returns an engine error for every code:
\* SuspendSendingProcess for -1000, an unknown-plugin-error value for any other.
C9_ErrorMappingTotal ==
    call.op = "error_from_i64"
        => /\ call.res.kind = "Ok"
           /\ (call.arg = SuspendCode) => (call.res.val = "SuspendSendingProcess")
           /\ (call.arg # SuspendCode) => (call.res.val = "UnknownPluginError")

\* C10: neither direction of the frame codec aborts: encode returns a plugin
\* value or an error value, decode a frame or an error value.
C10_CodecNeverAborts ==
    call.op \in {"from_with_ph", "try_from_with_ph"} => call.res.kind # "Panic"

\* C12: the encoded header has its version absent exactly for a short header
\* (present for long and version-negotiation headers), a supported-versions
\* list when and only when the header is a version-negotiation header, and
\* connection-id handles whose declared max read length does not exceed the
\* connection id the engine holds.
C12_HeaderFields ==
    call.op = "header_from_with_ph"
        => LET h == input.header
               hdr == call.res.val.hdr
           IN  /\ (hdr.version = None) <=> (h.ty = "Short")
               /\ (hdr.supported_versions # None) <=> (h.ty = "VersionNegotiation")
               /\ hdr.destination_cid.max_read_len <= Len(h.dcid)
               /\ (hdr.source_cid # None)
                      => hdr.source_cid.v.max_read_len <= Len(h.scid)

====
